---- MODULE Spec2Model ----
(***************************************************************************)
(* ToolCallAgent (app/agent/toolcall.py): the think / act turn controller, *)
(* the tool executor and the special-tool policy.                          *)
(*                                                                         *)
(* Text is a sequence of atoms (a word, a phrase or a line break); the     *)
(* empty sequence stands for both None and "".  Lengths count atoms.       *)
(***************************************************************************)
EXTENDS Integers, Sequences, FiniteSets, TLC

VARIABLES
    memory,             \* self.memory.messages
    state,              \* self.state (AgentState)
    tool_calls,         \* self.tool_calls
    tool_choices,       \* self.tool_choices
    special_tool_names, \* self.special_tool_names
    max_observe,        \* self.max_observe (0 is None)
    next_step_prompt,   \* self.next_step_prompt
    pc,                 \* where the running coroutine is suspended
    idx,                \* act(): position of `command` in self.tool_calls
    results,            \* act(): the local list `results`
    ret,                \* what the last think()/act() returned or raised
    work,               \* history: 2 per think()/act() call, 1 per returned tool call
    actBase,            \* history: Len(memory) when the running act() started
    thinkBase,          \* history: Len(memory) when the running think() started
    executed,           \* history: what execute_tool did for each command of this act()
    event,              \* history: what the last step did
    input_text,         \* the text a classifier or synthesizer call is given
    returned            \* what that call returned

vars == <<memory, state, tool_calls, tool_choices, special_tool_names, max_observe,
          next_step_prompt, pc, idx, results, ret, work, actBase, thinkBase,
          executed, event, input_text, returned>>

----------------------------------------------------------------------------
(* Bounds *)

\* A run is explored while its work is at most MaxWork: a think() or act()
\* call weighs 2, a tool call returned by a completion weighs 1, and a
\* completion returns no more tool calls than leave room for one act().
MaxWork == 7

\* The classifier is tried on the texts of at most MaxTextLen atoms.
MaxTextLen == 3

\* The synthesizer is tried on texts of at most MaxQuestionLen characters.
MaxQuestionLen == 502

----------------------------------------------------------------------------
(* Values *)

RUNNING == "RUNNING"
FINISHED == "FINISHED"

AUTO == "auto"
REQUIRED == "required"
NONE == "none"

NoId == <<>>
NoName == "None"

TOOL_CALL_REQUIRED == <<"Tool calls required but none provided">>

NEXT_STEP_PROMPT == <<"next step">>

\* A Python value that is a str, a bool or a dict carrying requires_user_response.
StrV(s) == [kind |-> "str", text |-> s, flag |-> FALSE]
BoolV(b) == [kind |-> "bool", text |-> <<>>, flag |-> b]
DictV(f) == [kind |-> "dict", text |-> <<>>, flag |-> f]
Raised(e, s) == [kind |-> e, text |-> s, flag |-> FALSE]
NoneV == [kind |-> "none", text |-> <<>>, flag |-> FALSE]

\* str(result)
Str(v) ==
    IF v.kind = "dict"
    THEN IF v.flag THEN <<"{'requires_user_response': True}">>
                   ELSE <<"{'requires_user_response': False}">>
    ELSE v.text

\* bool(result)
Truthy(v) ==
    IF v.kind = "dict" THEN TRUE
    ELSE IF v.kind = "bool" THEN v.flag
    ELSE v.text # <<>>

----------------------------------------------------------------------------
(* Messages and memory *)

user_message(content) ==
    [role |-> "user", content |-> content, tool_calls |-> <<>>,
     tool_call_id |-> NoId, name |-> NoName]

assistant_message(content) ==
    [role |-> "assistant", content |-> content, tool_calls |-> <<>>,
     tool_call_id |-> NoId, name |-> NoName]

from_tool_calls(content, calls) ==
    [role |-> "assistant", content |-> content, tool_calls |-> calls,
     tool_call_id |-> NoId, name |-> NoName]

tool_message(content, id, name) ==
    [role |-> "tool", content |-> content, tool_calls |-> <<>>,
     tool_call_id |-> id, name |-> name]

add_message(mem, msg) == Append(mem, msg)

----------------------------------------------------------------------------
(* Tool calls and JSON argument strings *)

\* A JSON string: the empty string, an encoded object or a malformed text.
JsonText(shape, question) == [json |-> shape, question |-> question]

Function(name, arguments) == [name |-> name, arguments |-> arguments]

ToolCall(id, function) == [id |-> id, name |-> function.name,
                           arguments |-> function.arguments]

\* json.dumps(args) of the fixed-shape argument object
json_dumps(question) == JsonText("object", question)

\* a parser that accepts any text
json_loads_ok_Lenient(arguments) == arguments.json \in {"empty", "object", "malformed"}

\* json.loads(command.function.arguments or "{}") succeeds
json_loads_ok(arguments) == arguments.json # "malformed"

----------------------------------------------------------------------------
(* Question classifier *)

Lower(a) ==
    CASE a = "Which" -> "which"
      [] a = "Would you like" -> "would you like"
      [] a = "Please let me know" -> "please let me know"
      [] a = "Sum of" -> "sum of"
      [] a = "What" -> "what"
      [] a = "Terminate" -> "terminate"
      [] OTHER -> a

\* the pattern literals that occur inside a lower-case atom
Fragments(a) ==
    CASE a = "would you like" -> {"would you like", "would"}
      [] a = "can you" -> {"can you", "can"}
      [] a = "could you" -> {"could you", "could"}
      [] a = "if you would like" -> {"if you would like", "would"}
      [] OTHER -> {a}

\* `lit in text.lower()`
ContainsLower(text, lit) ==
    \E i \in 1..Len(text) : lit \in Fragments(Lower(text[i]))

\* `lit in text`
Contains(text, lit) ==
    \E i \in 1..Len(text) : text[i] = lit

Pattern(head, tails) == [head |-> head, tails |-> tails]

PLEASE_LET_ME_KNOW == Pattern("please let me know", {})

question_patterns ==
    << Pattern("would you like", {}),
       Pattern("do you want", {}),
       Pattern("can you", {}),
       Pattern("could you", {}),
       Pattern("please provide", {}),
       PLEASE_LET_ME_KNOW,
       Pattern("please specify", {}),
       Pattern("tell me", {}),
       Pattern("what", {"would", "should", "can", "could"}),
       Pattern("how", {"would", "should", "can", "could"}),
       Pattern("which", {"option", "choice"}),
       Pattern("if you have", {}),
       Pattern("if you would like", {}) >>

\* re.search(pattern, text) with (?i); `.` does not cross a line break
re_search(p, text) ==
    IF p.tails = {}
    THEN ContainsLower(text, p.head)
    ELSE \E i \in 1..Len(text) : \E j \in (i+1)..Len(text) :
            /\ p.head \in Fragments(Lower(text[i]))
            /\ Fragments(Lower(text[j])) \cap p.tails # {}
            /\ \A k \in i..j : text[k] \notin {"\n"}

_is_asking_question(text) ==
    IF \/ (text # <<>> /\ text[1] = "I successfully")
       \/ ContainsLower(text, "sum of")
       \/ ContainsLower(text, "sum is")
    THEN FALSE
    ELSE IF Contains(text, "?")
    THEN TRUE
    ELSE IF \E n \in 1..Len(question_patterns) : re_search(question_patterns[n], text)
    THEN LET first == CHOOSE n \in 1..Len(question_patterns) :
                        /\ re_search(question_patterns[n], text)
                        /\ \A m \in 1..(n-1) : ~re_search(question_patterns[m], text)
         IN  ~( /\ question_patterns[first] = PLEASE_LET_ME_KNOW
                /\ (ContainsLower(text, "if you need")
                    \/ ContainsLower(text, "further assistance")) )
    ELSE FALSE

----------------------------------------------------------------------------
(* Tool call synthesizer *)

max_length == 500

AutoAskUserId == <<0, 0>>      \* the id "auto_ask_user"

Min(a, b) == IF a < b THEN a ELSE b

Take(s, n) == SubSeq(s, 1, Min(Len(s), n))

\* ReplaceLineBreaks without `.replace('\r', ' ')`
ReplaceLineBreaks_OnlyLF(text) ==
    [i \in 1..Len(text) |-> IF text[i] = "\n" THEN " " ELSE text[i]]

\* question_text.replace('\n', ' ').replace('\r', ' ')
ReplaceLineBreaks(text) ==
    [i \in 1..Len(text) |-> IF text[i] \in {"\n", "\r"} THEN " " ELSE text[i]]

\* constructing the Function or the ToolCall object failed: `fault`
_create_ask_user_tool_call(question_text, fault) ==
    LET trimmed == IF Len(question_text) > max_length
                   THEN Take(question_text, max_length) \o <<".", ".", ".">>
                   ELSE question_text
        args_json == json_dumps(ReplaceLineBreaks(trimmed))
    IN  IF fault
        THEN <<>>
        ELSE << ToolCall(AutoAskUserId, Function("ask_user", args_json)) >>

----------------------------------------------------------------------------
(* Tool registry and special-tool policy *)

\* self.available_tools.tool_map (its keys)
tool_map == {"terminate", "ask_user"}

_is_special_tool(names, name) ==
    \E n \in 1..Len(names) : Lower(names[n]) = Lower(name)

_should_finish_execution == TRUE

\* _handle_special_tool without the ask_user exemption
_handle_special_tool_NoExemption(st, names, name) ==
    IF ~_is_special_tool(names, name)
    THEN st
    ELSE IF _should_finish_execution
    THEN FINISHED
    ELSE st

_handle_special_tool(st, names, name) ==
    IF ~_is_special_tool(names, name)
    THEN st
    ELSE IF Lower(name) = "ask_user"
    THEN st
    ELSE IF _should_finish_execution
    THEN FINISHED
    ELSE st

----------------------------------------------------------------------------
(* Tool executor *)

\* requires_user_response with the flag test inverted
requires_user_response_Inverted(result) == result.kind = "dict" /\ ~result.flag

\* isinstance(result, dict) and result.get("requires_user_response", False)
requires_user_response(result) == result.kind = "dict" /\ result.flag

\* Precheck without the registry lookup
Precheck_NoLookup(command) ==
    IF command.name = ""
    THEN "invalid"
    ELSE IF ~json_loads_ok(command.arguments)
    THEN "badjson"
    ELSE "invoke"

\* what execute_tool does with `command` before the tool is awaited
Precheck(command) ==
    IF command.name = ""
    THEN "invalid"
    ELSE IF command.name \notin tool_map
    THEN "unknown"
    ELSE IF ~json_loads_ok(command.arguments)
    THEN "badjson"
    ELSE "invoke"

InvalidCommandObservation == <<"Error: ", "Invalid command format">>

UnknownToolObservation(name) == <<"Error: ", "Unknown tool '", name, "'">>

InvalidJsonObservation(name) ==
    <<"Error: ", "Error parsing arguments for ", name, ": Invalid JSON format">>

ToolProblemObservation(name, e) ==
    <<"Error: ", "Tool '", name, "' encountered a problem: ", e>>

\* (the back quotes around the name are written as plain quotes)
FormatObservation(name, result) ==
    IF Truthy(result)
    THEN <<"Observed output of cmd '", name, "' executed:", "\n">> \o Str(result)
    ELSE <<"Cmd '", name, "' completed with no output">>

\* execute_tool when the command is rejected before any tool runs
RejectedObservation(command) ==
    CASE Precheck(command) = "invalid" -> InvalidCommandObservation
      [] Precheck(command) = "unknown" -> UnknownToolObservation(command.name)
      [] OTHER -> InvalidJsonObservation(command.name)

\* ExecuteReturn without the `except Exception` clause: the exception of the
\* tool is what execute_tool hands to act()
ExecuteReturn_Propagate(name, outcome) ==
    IF outcome.kind = "raise"
    THEN outcome
    ELSE IF requires_user_response(outcome)
    THEN outcome
    ELSE StrV(FormatObservation(name, outcome))

\* execute_tool after `await self.available_tools.execute(...)`:
\* outcome.kind = "raise" is an exception raised by the tool
ExecuteReturn(name, outcome) ==
    IF outcome.kind = "raise"
    THEN StrV(ToolProblemObservation(name, outcome.text[1]))
    ELSE IF requires_user_response(outcome)
    THEN outcome
    ELSE StrV(FormatObservation(name, outcome))

\* self.state after execute_tool returned
ExecuteState(st, names, name, outcome) ==
    IF outcome.kind = "raise"
    THEN st
    ELSE IF requires_user_response(outcome)
    THEN st
    ELSE _handle_special_tool(st, names, name)

----------------------------------------------------------------------------
(* act(): handling of one result, and the aggregate *)

\* result[: self.max_observe] under `if self.max_observe`
Observe(text, limit) == IF limit # 0 THEN Take(text, limit) ELSE text

RECURSIVE Join_SingleNewline(_)
\* Join with "\n" for the separator
Join_SingleNewline(rs) ==
    IF rs = <<>> THEN <<>>
    ELSE IF Len(rs) = 1 THEN rs[1]
    ELSE rs[1] \o <<"\n">> \o Join_SingleNewline(Tail(rs))

RECURSIVE Join(_)
\* "\n\n".join(results)
Join(rs) ==
    IF rs = <<>> THEN <<>>
    ELSE IF Len(rs) = 1 THEN rs[1]
    ELSE rs[1] \o <<"\n\n">> \o Join(Tail(rs))

NO_CONTENT == <<"No content or commands to execute">>

----------------------------------------------------------------------------
(* think(): what the completion call can deliver *)

\* exceptions of self.llm.ask_tool: the raised type and the type of __cause__
CompletionErrors ==
    { [type |-> "ValueError", cause |-> "None"],
      [type |-> "ValueError", cause |-> "TokenLimitExceeded"],
      [type |-> "RetryError", cause |-> "TokenLimitExceeded"],
      [type |-> "TokenLimitExceeded", cause |-> "None"],
      [type |-> "ConnectionError", cause |-> "None"] }

\* `except ValueError`
IsValueError(e) == e.type = "ValueError"

\* any cause, a missing one too, taken for a token-limit error
HasTokenLimitCause_Any(e) == e.cause \in {"None", "TokenLimitExceeded"}

\* hasattr(e, "__cause__") and isinstance(e.__cause__, TokenLimitExceeded)
HasTokenLimitCause(e) == e.cause = "TokenLimitExceeded"

TokenLimitMessage ==
    assistant_message(<<"Maximum token limit reached, cannot continue execution: ",
                        "TokenLimitExceeded">>)

ProcessingErrorMessage ==
    assistant_message(<<"Error encountered while processing: ", "error">>)

NEED_MORE_INFORMATION == <<"I need to get more information from you">>

\* response.content of a completion
ResponseContents == { <<>>, <<"done">>, <<"Which", "file", "?">> }

\* the name and arguments the model can put in a structured tool call
ResponseFunctions ==
    { Function("terminate", JsonText("object", <<>>)),
      Function("terminate", JsonText("malformed", <<>>)),
      Function("ask_user", JsonText("empty", <<>>)),
      Function("ghost", JsonText("object", <<>>)),
      Function("", JsonText("object", <<>>)) }

\* response.tool_calls of a completion: at most `most` calls, their ids fresh
\* for the think() that started with `base` messages in memory
ResponseToolCalls(base, most) ==
    UNION { { [i \in 1..n |-> ToolCall(<<base + 1, i>>, f[i])] :
                f \in [1..n -> ResponseFunctions] } : n \in {0} \cup (1..most) }

\* where an exception is raised while the response is processed: in the
\* classifier (line 101), in the synthesizer's constructors (lines 345-363),
\* while the synthesized message is recorded (lines 110-114) or while the
\* turn's assistant message is recorded (lines 93, 121-128)
Faults == {"none", "classify", "synth", "convert", "record"}

\* the faults whose place the processing of `response` reaches
ReachedFaults(policy, response) ==
    { f \in Faults :
        \/ f = "none"
        \/ /\ f = "record"
           /\ (policy = NONE => response.content # <<>>)
           /\ ~ (/\ policy # NONE
                 /\ response.tool_calls = <<>>
                 /\ _is_asking_question(response.content))
        \/ /\ f \in {"classify", "synth", "convert"}
           /\ policy # NONE
           /\ response.tool_calls = <<>>
           /\ response.content # <<>>
           /\ (f = "classify" \/ _is_asking_question(response.content)) }

\* the completions the model can return: at most `most` tool calls
Responses(base, most) ==
    { r \in [content : ResponseContents, tool_calls : ResponseToolCalls(base, most)] :
        r.tool_calls # <<>> => r.content \in { <<>>, <<"done">> } }

\* ShouldAct without the two tests of the policy: only `bool(self.tool_calls)`
ShouldAct_CallsOnly(policy, pending, content) == pending # <<>>

\* think(), lines 130-137: the value returned once the message is recorded
ShouldAct(policy, pending, content) ==
    IF policy = REQUIRED /\ pending = <<>>
    THEN TRUE
    ELSE IF policy = AUTO /\ pending = <<>>
    THEN content # <<>>
    ELSE pending # <<>>

\* think() from line 73 on: the new memory, pending calls and return value
Think(mem, policy, response, fault) ==
    LET content == response.content
        calls == response.tool_calls
        failed(cs) == [mem |-> add_message(mem, ProcessingErrorMessage),
                       calls |-> cs, ret |-> FALSE]
    IN  IF policy = NONE
        THEN IF content # <<>>
             THEN IF fault = "record"
                  THEN failed(calls)
                  ELSE [mem |-> add_message(mem, assistant_message(content)),
                        calls |-> calls, ret |-> TRUE]
             ELSE [mem |-> mem, calls |-> calls, ret |-> FALSE]
        ELSE LET asks == /\ calls = <<>>
                         /\ content # <<>>
                         /\ fault # "classify"
                         /\ _is_asking_question(content)
                 pending == IF asks
                            THEN _create_ask_user_tool_call(content, fault = "synth")
                            ELSE calls
             IN  IF asks /\ pending # <<>> /\ fault # "convert"
                 THEN [mem |-> add_message(mem,
                                  from_tool_calls(NEED_MORE_INFORMATION, pending)),
                       calls |-> pending, ret |-> TRUE]
                 ELSE IF fault = "record"
                 THEN failed(pending)
                 ELSE [mem |-> add_message(mem,
                                  IF pending # <<>>
                                  THEN from_tool_calls(content, pending)
                                  ELSE assistant_message(content)),
                       calls |-> pending,
                       ret |-> ShouldAct(policy, pending, content)]

----------------------------------------------------------------------------
(* Configurations and tool outcomes *)

SpecialToolNames == { <<"terminate">>, <<"Terminate", "ask_user">>, <<"ask_user">> }

MaxObserveValues == {0, 2}

NextStepPrompts == { <<>>, NEXT_STEP_PROMPT }

\* what `await self.available_tools.execute(...)` can deliver
ToolOutcomes ==
    { StrV(<<>>), StrV(<<"out">>), DictV(TRUE), DictV(FALSE),
      Raised("raise", <<"boom">>) }

\* the value of a call that has not returned yet, of a classifier call and of
\* a synthesizer call
NoReturn == [kind |-> "none", flag |-> FALSE, calls |-> <<>>]
Verdict(b) == [kind |-> "bool", flag |-> b, calls |-> <<>>]
CallList(cs) == [kind |-> "list", flag |-> FALSE, calls |-> cs]

\* the response of a step that is not the return of a completion call
NoResponse == [content |-> <<>>, tool_calls |-> <<>>]

NoEvent == [op |-> "init", type |-> "None", cause |-> "None", response |-> NoResponse]

Event(op) == [op |-> op, type |-> "None", cause |-> "None", response |-> NoResponse]

----------------------------------------------------------------------------
(* The state machine *)

\* the fields of a constructed agent that no configuration sets
Constructed ==
    /\ memory = <<>>
    /\ state = RUNNING
    /\ tool_calls = <<>>
    /\ pc = "idle"
    /\ idx = 0
    /\ results = <<>>
    /\ ret = NoneV
    /\ work = 0
    /\ actBase = 0
    /\ thinkBase = 0
    /\ executed = <<>>
    /\ event = NoEvent

Init ==
    /\ Constructed
    /\ tool_choices \in {AUTO, REQUIRED, NONE}
    /\ special_tool_names \in SpecialToolNames
    /\ max_observe \in MaxObserveValues
    /\ next_step_prompt \in NextStepPrompts
    /\ input_text = <<>>
    /\ returned = NoReturn

config == <<tool_choices, special_tool_names, max_observe, next_step_prompt>>

\* the argument and the value of a direct call of _is_asking_question or
\* _create_ask_user_tool_call: think() and act() do not touch them
call == <<input_text, returned>>

\* ThinkBegin with `self.messages = [user_msg]` for `self.messages += [user_msg]`
ThinkBegin_Overwrite ==
    /\ pc = "idle"
    /\ work + 2 <= MaxWork
    /\ work' = work + 2
    /\ thinkBase' = Len(memory)
    /\ memory' = IF next_step_prompt # <<>>
                 THEN <<user_message(next_step_prompt)>>
                 ELSE memory
    /\ pc' = "llm"
    /\ event' = Event("think")
    /\ UNCHANGED <<state, tool_calls, config, call, idx, results, ret, actBase, executed>>

\* think(), lines 41-47: the optional user message, then the completion call
ThinkBegin ==
    /\ pc = "idle"
    /\ work + 2 <= MaxWork
    /\ work' = work + 2
    /\ thinkBase' = Len(memory)
    /\ memory' = IF next_step_prompt # <<>>
                 THEN add_message(memory, user_message(next_step_prompt))
                 ELSE memory
    /\ pc' = "llm"
    /\ event' = Event("think")
    /\ UNCHANGED <<state, tool_calls, config, call, idx, results, ret, actBase, executed>>

\* think(), lines 55-71: the completion call raised
CompletionRaises ==
    /\ pc = "llm"
    /\ \E e \in CompletionErrors :
        /\ event' = [op |-> "completion_raises", type |-> e.type, cause |-> e.cause,
                     response |-> NoResponse]
        /\ IF IsValueError(e)
           THEN /\ ret' = Raised(e.type, <<>>)
                /\ UNCHANGED <<memory, state>>
           ELSE IF HasTokenLimitCause(e)
           THEN /\ memory' = add_message(memory, TokenLimitMessage)
                /\ state' = FINISHED
                /\ ret' = BoolV(FALSE)
           ELSE /\ ret' = Raised(e.type, <<>>)
                /\ UNCHANGED <<memory, state>>
    /\ pc' = "idle"
    /\ UNCHANGED <<tool_calls, config, call, idx, results, work, actBase, thinkBase,
                   executed>>

\* think(), lines 73-145: the completion call returned a response, and the
\* processing meets one of `faults`
Completion(faults) ==
    /\ pc = "llm"
    /\ \E response \in Responses(thinkBase, MaxWork - work - 2) :
       \E fault \in ReachedFaults(tool_choices, response) \cap faults :
        LET t == Think(memory, tool_choices, response, fault)
        IN  /\ memory' = t.mem
            /\ tool_calls' = t.calls
            /\ ret' = BoolV(t.ret)
            /\ work' = work + Len(response.tool_calls)
            /\ event' = [op |-> "completion_returns", type |-> fault, cause |-> "None",
                         response |-> response]
    /\ pc' = "idle"
    /\ UNCHANGED <<state, config, call, idx, results, actBase, thinkBase, executed>>

CompletionReturns == Completion(Faults)

\* the same, when nothing raises while the response is processed
CompletionReturnsCleanly == Completion({"none"})

\* ActWithoutCalls without the test of the policy
ActWithoutCalls_NoRequired(policy, mem) ==
    IF mem = <<>>
    THEN Raised("IndexError", <<>>)
    ELSE IF mem[Len(mem)].content # <<>>
    THEN StrV(mem[Len(mem)].content)
    ELSE StrV(NO_CONTENT)

\* act(), lines 149-154: what act() returns or raises without pending calls;
\* self.messages[-1] of an empty memory raises IndexError
ActWithoutCalls(policy, mem) ==
    IF policy = REQUIRED
    THEN Raised("ValueError", TOOL_CALL_REQUIRED)
    ELSE IF mem = <<>>
    THEN Raised("IndexError", <<>>)
    ELSE IF mem[Len(mem)].content # <<>>
    THEN StrV(mem[Len(mem)].content)
    ELSE StrV(NO_CONTENT)

\* act(), lines 149-156: no pending calls, or the loop starts
ActBegin ==
    /\ pc = "idle"
    /\ work + 2 <= MaxWork
    /\ work' = work + 2
    /\ actBase' = Len(memory)
    /\ executed' = <<>>
    /\ results' = <<>>
    /\ event' = Event("act")
    /\ IF tool_calls = <<>>
       THEN /\ ret' = ActWithoutCalls(tool_choices, memory)
            /\ pc' = "idle"
            /\ idx' = 0
       ELSE /\ pc' = "exec"
            /\ idx' = 1
            /\ UNCHANGED ret
    /\ UNCHANGED <<memory, state, tool_calls, config, call, thinkBase>>

\* the tool-role message act() records for `command` and execute_tool's value r
ToolResponse(command, r, limit) ==
    IF requires_user_response(r)
    THEN tool_message(Str(r), command.id, command.name)
    ELSE tool_message(Observe(r.text, limit), command.id, command.name)

\* Record without `self.memory.add_message(tool_msg)` inside the loop
Record_Unrecorded(r) ==
    /\ memory' = memory
    /\ IF requires_user_response(r)
       THEN /\ ret' = r
            /\ pc' = "idle"
            /\ UNCHANGED <<results, idx>>
       ELSE /\ results' = Append(results, Observe(r.text, max_observe))
            /\ IF idx = Len(tool_calls)
               THEN /\ ret' = StrV(Join(results'))
                    /\ pc' = "idle"
                    /\ UNCHANGED idx
               ELSE /\ idx' = idx + 1
                    /\ pc' = "exec"
                    /\ UNCHANGED ret

\* act(), lines 160-185, for the value r that execute_tool returned
Record(r) ==
    LET command == tool_calls[idx]
    IN  /\ memory' = add_message(memory, ToolResponse(command, r, max_observe))
        /\ IF requires_user_response(r)
           THEN /\ ret' = r
                /\ pc' = "idle"
                /\ UNCHANGED <<results, idx>>
           ELSE /\ results' = Append(results, Observe(r.text, max_observe))
                /\ IF idx = Len(tool_calls)
                   THEN /\ ret' = StrV(Join(results'))
                        /\ pc' = "idle"
                        /\ UNCHANGED idx
                   ELSE /\ idx' = idx + 1
                        /\ pc' = "exec"
                        /\ UNCHANGED ret

\* execute_tool, lines 189-198 and 220-225: the command never reaches a tool
ExecuteRejects ==
    /\ pc = "exec"
    /\ Precheck(tool_calls[idx]) # "invoke"
    /\ LET r == StrV(RejectedObservation(tool_calls[idx]))
       IN  /\ Record(r)
           /\ executed' = Append(executed, [command |-> tool_calls[idx], invoked |-> FALSE,
                                            raw |-> NoneV, out |-> r])
    /\ event' = Event("execute_rejects")
    /\ UNCHANGED <<state, tool_calls, config, call, work, actBase, thinkBase>>

\* execute_tool, line 202: the tool is awaited
ExecuteInvokes ==
    /\ pc = "exec"
    /\ Precheck(tool_calls[idx]) = "invoke"
    /\ pc' = "tool"
    /\ event' = Event("execute_invokes")
    /\ UNCHANGED <<memory, state, tool_calls, config, call, idx, results, ret, work,
                   actBase, thinkBase, executed>>

\* execute_tool, lines 202-229, then act(): the tool returned or raised
ToolReturns ==
    /\ pc = "tool"
    /\ \E outcome \in ToolOutcomes :
        LET name == tool_calls[idx].name
            r == ExecuteReturn(name, outcome)
        IN  /\ state' = ExecuteState(state, special_tool_names, name, outcome)
            /\ Record(r)
            /\ executed' = Append(executed, [command |-> tool_calls[idx], invoked |-> TRUE,
                                             raw |-> outcome, out |-> r])
    /\ event' = Event("tool_returns")
    /\ UNCHANGED <<tool_calls, config, call, work, actBase, thinkBase>>

Next ==
    \/ ThinkBegin
    \/ CompletionRaises
    \/ CompletionReturns
    \/ ActBegin
    \/ ExecuteRejects
    \/ ExecuteInvokes
    \/ ToolReturns

Spec == Init /\ [][Next]_vars

\* The runs in which no exception is raised while a response is processed
NextNoFault ==
    \/ ThinkBegin
    \/ CompletionRaises
    \/ CompletionReturnsCleanly
    \/ ActBegin
    \/ ExecuteRejects
    \/ ExecuteInvokes
    \/ ToolReturns

SpecNoFault == Init /\ [][NextNoFault]_vars

----------------------------------------------------------------------------
(* The classifier called on its own *)

\* the agent's fields: a classifier or synthesizer call reads and writes none
agent == <<memory, state, tool_calls, config, pc, idx, results, ret, work,
           actBase, thinkBase, executed, event>>

\* the class defaults of lines 25-37 (max_observe None is 0)
Defaults ==
    /\ tool_choices = AUTO
    /\ special_tool_names = <<"terminate">>
    /\ max_observe = 0
    /\ next_step_prompt = NEXT_STEP_PROMPT

\* the atoms of the texts the classifier is tried on
ClassifierAtoms ==
    { "I successfully", "Sum of", "sum is", "?", "could you", "Please let me know",
      "tell me", "Which", "option", "\n", "if you need", "further assistance",
      "done" }

\* every text of at most MaxTextLen of these atoms
ClassifierTexts == UNION { [1..n -> ClassifierAtoms] : n \in 0..MaxTextLen }

InitClassifier ==
    /\ Constructed
    /\ Defaults
    /\ input_text \in ClassifierTexts
    /\ returned = NoReturn

\* self._is_asking_question(text)
Classify ==
    /\ returned = NoReturn
    /\ returned' = Verdict(_is_asking_question(input_text))
    /\ UNCHANGED <<agent, input_text>>

SpecClassifier == InitClassifier /\ [][Classify]_vars

----------------------------------------------------------------------------
(* The synthesizer called on its own: here an atom is one character *)

\* where a text has its line feed and its carriage return, 0 for none
BreakPositions(n) == {0, 1, 2, max_length, max_length + 1, n} \cap (0..n)

\* the text of n characters with a line feed at lf and a carriage return at cr
QuestionText(n, lf, cr) ==
    [i \in 1..n |-> IF i = lf THEN "\n" ELSE IF i = cr THEN "\r" ELSE "a"]

QuestionTexts ==
    { QuestionText(n, lf, cr) :
        n \in 0..MaxQuestionLen, lf \in BreakPositions(MaxQuestionLen),
        cr \in BreakPositions(MaxQuestionLen) }

InitSynthesizer ==
    /\ Constructed
    /\ Defaults
    /\ input_text \in QuestionTexts
    /\ returned = NoReturn

\* self._create_ask_user_tool_call(question_text); `fault`: a constructor
\* of lines 345-363 raises
Synthesize ==
    /\ returned = NoReturn
    /\ \E fault \in BOOLEAN :
        returned' = CallList(_create_ask_user_tool_call(input_text, fault))
    /\ UNCHANGED <<agent, input_text>>

SpecSynthesizer == InitSynthesizer /\ [][Synthesize]_vars

----------------------------------------------------------------------------
(* Properties of act() *)

\* act() has just returned from its loop over the pending calls
ActLoopReturned == pc = "idle" /\ event.op \in {"execute_rejects", "tool_returns"}

\* the tool's raw result is a suspend signal
CarriesSuspendFlag(v) == v.kind = "dict" /\ v.flag

\* memory holds, from position base + 1 on, the tool responses of calls 1..n
ToolResponsesRecorded(base, n) ==
    /\ Len(memory) = base + n
    /\ \A i \in 1..n :
        /\ memory[base + i].role = "tool"
        /\ memory[base + i].tool_call_id = tool_calls[i].id
        /\ memory[base + i].name = tool_calls[i].name

\* the observation act() keeps for call i
KeptObservation(i) ==
    IF max_observe = 0
    THEN executed[i].out.text
    ELSE SubSeq(executed[i].out.text, 1, Min(max_observe, Len(executed[i].out.text)))

RECURSIVE BlankLineSeparated(_)
\* observations 1..n, a blank line between neighbours
BlankLineSeparated(n) ==
    IF n = 0 THEN <<>>
    ELSE IF n = 1 THEN KeptObservation(1)
    ELSE BlankLineSeparated(n - 1) \o <<"\n\n">> \o KeptObservation(n)

\* C1: when none of the N >= 1 pending calls of a turn returns a suspend
\* signal, act() appends exactly N tool-role messages, the i-th with the id
\* and tool name of the i-th call, and returns the N observations in order,
\* joined by a blank line.
C1_NoSuspendRoundTrip ==
    (ActLoopReturned /\ \A i \in 1..Len(executed) : ~CarriesSuspendFlag(executed[i].raw))
        => /\ Len(tool_calls) >= 1
           /\ Len(executed) = Len(tool_calls)
           /\ ToolResponsesRecorded(actBase, Len(tool_calls))
           /\ ret.kind = "str"
           /\ ret.text = BlankLineSeparated(Len(tool_calls))

\* a three-call turn with a rejected call, a terminate in the middle and a
\* failing tool has returned its aggregate
C1_Witness ==
    /\ ActLoopReturned
    /\ Len(tool_calls) = 3
    /\ Len(executed) = 3
    /\ ~executed[1].invoked
    /\ tool_calls[2].name = "terminate" /\ executed[2].invoked /\ state = FINISHED
    /\ executed[3].raw.kind = "raise"
    /\ ret.kind = "str"

\* C2: when the first call whose result carries requires_user_response is at
\* position k, act() appends exactly k tool-role messages (calls 1..k, in
\* order), executes none of the calls k+1..N and returns the suspend signal.
C2_SuspendAtK ==
    /\ (pc \in {"exec", "tool"}
            => \A i \in 1..Len(executed) : ~CarriesSuspendFlag(executed[i].raw))
    /\ (ActLoopReturned /\ \E i \in 1..Len(executed) : CarriesSuspendFlag(executed[i].raw))
            => LET k == CHOOSE i \in 1..Len(executed) :
                            /\ CarriesSuspendFlag(executed[i].raw)
                            /\ \A j \in 1..(i-1) : ~CarriesSuspendFlag(executed[j].raw)
               IN  /\ Len(executed) = k
                   /\ ToolResponsesRecorded(actBase, k)
                   /\ ret = executed[k].raw

\* a three-call turn was suspended by its second call
C2_Witness ==
    /\ ActLoopReturned
    /\ Len(tool_calls) = 3
    /\ Len(executed) = 2
    /\ CarriesSuspendFlag(executed[2].raw)
    /\ ret.kind = "dict"

----------------------------------------------------------------------------
(* Properties of execute_tool and the special-tool policy *)

\* execute_tool has just returned from awaiting the tool of call Len(executed)
ToolJustReturned == event.op = "tool_returns"

LastCommand == executed[Len(executed)].command

\* the name matches the configured special-tool set, case-insensitively
MatchesSpecialSet(name) ==
    \E n \in 1..Len(special_tool_names) : Lower(special_tool_names[n]) = Lower(name)

\* C3: whenever execute_tool invokes a registered tool whose name matches the
\* special-tool set case-insensitively and is not ask_user, the Agent Run
\* State is FINISHED when execute_tool returns.
C3_SpecialToolFinishes ==
    (/\ ToolJustReturned
     /\ MatchesSpecialSet(LastCommand.name)
     /\ Lower(LastCommand.name) # "ask_user")
        => state = FINISHED

\* C4: executing the ask_user tool never changes the Agent Run State,
\* whether or not ask_user is in the special-tool set and whatever it returns.
C4_AskUserKeepsState ==
    [][ (pc \in {"exec", "tool"} /\ Lower(tool_calls[idx].name) = "ask_user")
            => state' = state ]_vars

\* ask_user, listed as a special tool, returned an ordinary result in a
\* RUNNING agent
C4_Witness ==
    /\ ToolJustReturned
    /\ LastCommand.name = "ask_user"
    /\ MatchesSpecialSet("ask_user")
    /\ executed[Len(executed)].raw.kind = "str"
    /\ state = RUNNING

----------------------------------------------------------------------------
(* Properties of think() *)

CompletionJustRaised == event.op = "completion_raises"

\* the messages the running or last think() has appended
AppendedByThink == SubSeq(memory, thinkBase + 1, Len(memory))

AssistantCount(msgs) ==
    Cardinality({ i \in 1..Len(msgs) : msgs[i].role = "assistant" })

\* C5: a completion call failing with a token-limit error, raised directly or
\* wrapped as the cause of a non-value exception, leaves the state FINISHED,
\* appends exactly one assistant message describing the limit and makes
\* think() return False, no exception escaping.
C5_TokenLimitAbsorbed ==
    (/\ CompletionJustRaised
     /\ event.type # "ValueError"
     /\ (event.type = "TokenLimitExceeded" \/ event.cause = "TokenLimitExceeded"))
        => /\ state = FINISHED
           /\ ret = BoolV(FALSE)
           /\ AssistantCount(AppendedByThink) = 1
           /\ memory[Len(memory)].role = "assistant"
           /\ memory[Len(memory)].content[1]
                = "Maximum token limit reached, cannot continue execution: "

\* C6: every tool-role message of memory carries a tool_call_id found in the
\* tool-call list of an assistant message earlier in memory, under every policy.
C6_ToolMessageAnswersCall ==
    \A j \in 1..Len(memory) :
        memory[j].role = "tool"
            => \E i \in 1..(j-1) :
                /\ memory[i].role = "assistant"
                /\ \E c \in 1..Len(memory[i].tool_calls) :
                        memory[i].tool_calls[c].id = memory[j].tool_call_id

----------------------------------------------------------------------------
(* Properties of the rejected calls *)

\* the command has a name and the registry does not know it
Unregistered(command) == command.name # "" /\ command.name \notin {"terminate", "ask_user"}

\* act() is running or has just returned from its loop
InActLoop == pc \in {"exec", "tool"} \/ ActLoopReturned

\* act() went on to the call after call i, or call i was the last one
LoopWentOn(i) ==
    \/ i = Len(tool_calls)
    \/ Len(executed) > i
    \/ (pc \in {"exec", "tool"} /\ idx = i + 1)

Malformed(command) == command.arguments.json = "malformed"

\* C8: a pending call to a registered tool with malformed JSON arguments
\* yields an "Error: ..." observation, reaches no tool, leaves the Agent Run
\* State alone and makes memory exactly one message longer: its tool response.
C8_MalformedArguments ==
    [][ (/\ pc = "exec"
         /\ tool_calls[idx].name \in {"terminate", "ask_user"}
         /\ Malformed(tool_calls[idx]))
            => /\ pc' # "tool"
               /\ state' = state
               /\ Len(memory') = Len(memory) + 1
               /\ memory'[Len(memory')].role = "tool"
               /\ memory'[Len(memory')].tool_call_id = tool_calls[idx].id
               /\ Len(executed') = Len(executed) + 1
               /\ ~executed'[Len(executed')].invoked
               /\ executed'[Len(executed')].out.kind = "str"
               /\ executed'[Len(executed')].out.text[1] = "Error: " ]_vars

\* a terminate call with malformed arguments was answered and the agent is
\* still RUNNING
C8_Witness ==
    /\ event.op = "execute_rejects"
    /\ LastCommand.name = "terminate"
    /\ Malformed(LastCommand)
    /\ memory[Len(memory)].role = "tool"
    /\ state = RUNNING

----------------------------------------------------------------------------
(* Properties of the run state and of memory *)

\* the step runs the special-tool policy for a special tool other than ask_user
SpecialPolicyFires ==
    /\ pc = "tool"
    /\ MatchesSpecialSet(tool_calls[idx].name)
    /\ Lower(tool_calls[idx].name) # "ask_user"

\* the step is think()'s handler of a wrapped token-limit error
TokenLimitHandled ==
    /\ pc = "llm"
    /\ event'.op = "completion_raises"
    /\ event'.type # "ValueError"
    /\ event'.cause = "TokenLimitExceeded"

\* C9: no step moves the Agent Run State from FINISHED back to RUNNING, and a
\* step that moves it to FINISHED is the special-tool policy firing for a
\* special tool other than ask_user, or think()'s token-limit handler.
C9_FinishedOneWay ==
    [][ /\ (state = FINISHED => state' = FINISHED)
        /\ (state' # state
                => state' = FINISHED /\ (SpecialPolicyFires \/ TokenLimitHandled)) ]_vars

\* a completion was processed and a tool was run while the agent was FINISHED
C9_Witness ==
    /\ state = FINISHED
    /\ ToolJustReturned
    /\ ~MatchesSpecialSet(LastCommand.name)
    /\ \E i \in 1..Len(memory) : memory[i] = TokenLimitMessage

IsPrefix(s, t) == Len(s) <= Len(t) /\ SubSeq(t, 1, Len(s)) = s

\* C10: memory is append-only: over every step of think() and act(), error
\* paths too, the memory before the step is a prefix of the memory after it.
C10_MemoryAppendOnly ==
    [][ IsPrefix(memory, memory') ]_vars

\* memory holds the message of a failed think() and, after it, a tool response
C10_Witness ==
    \E i \in 1..Len(memory) : \E j \in (i+1)..Len(memory) :
        /\ memory[i] \in {TokenLimitMessage, ProcessingErrorMessage}
        /\ memory[j].role = "tool"

----------------------------------------------------------------------------
(* Properties of failing tools *)

\* the tool of the command raised an exception
ToolRaised(e) == e.invoked /\ e.raw.kind = "raise"

----------------------------------------------------------------------------
(* Properties of the tool-choice policy *)

\* think() has just processed the response of a completion call
CompletionJustReturned == event.op = "completion_returns"

\* the assistant messages the running or last think() has appended
AssistantAppendedByThink ==
    { j \in (thinkBase + 1)..Len(memory) : memory[j].role = "assistant" }

\* act() runs, or has run its loop, in the turn whose think() recorded the
\* content of its response and returned True
ActAfterContent ==
    /\ InActLoop
    /\ actBase > thinkBase
    /\ memory[actBase].role = "assistant"
    /\ memory[actBase] \notin {TokenLimitMessage, ProcessingErrorMessage}

\* C12: under the policy NONE the structured tool calls of a response stay
\* unused: in a think()/act() turn no tool is invoked and no tool-role message
\* is appended, and think() records the content, if any, as a plain assistant
\* message and returns True iff there was content.
C12_NonePolicyCallsUnused ==
    tool_choices = NONE
        => /\ ActAfterContent
                => /\ pc # "tool"
                   /\ \A i \in 1..Len(executed) : ~executed[i].invoked
                   /\ \A j \in (actBase + 1)..Len(memory) : memory[j].role # "tool"
           /\ CompletionJustReturned
                => /\ Cardinality(AssistantAppendedByThink) <= 1
                   /\ \A j \in AssistantAppendedByThink :
                        memory[j].tool_calls = <<>> /\ memory[j].content # <<>>
                   /\ ret = BoolV(AssistantAppendedByThink # {})

----------------------------------------------------------------------------
(* Properties of the special-tool policy on the executor's outcomes *)

\* the step is the return of a tool that did not raise: the executor formats
\* the result or hands it on as a suspend signal
ToolReturnsResult ==
    /\ pc = "tool"
    /\ event'.op = "tool_returns"
    /\ executed'[Len(executed')].raw.kind # "raise"

\* C13: the special-tool policy is applied after every tool invocation, with
\* the tool name and the raw result, on both outcomes of the executor: the
\* result formatted into an observation and the result handed on unmodified
\* as a requires-user-response suspend signal.
C13_PolicyOnBothOutcomes ==
    [][ ToolReturnsResult
            => state' = _handle_special_tool(state, special_tool_names,
                                             tool_calls[idx].name) ]_vars

----------------------------------------------------------------------------
(* Properties of think() after a successful completion call *)

\* think() has recorded the message of its turn (lines 120-137) without an
\* exception, under a policy other than NONE
TurnMessageRecorded ==
    /\ CompletionJustReturned
    /\ tool_choices # NONE
    /\ event.type # "record"

----------------------------------------------------------------------------
(* Properties of the conversion of a question into an ask_user call *)

\* think() has processed, under a policy other than NONE, a response without
\* structured tool calls whose text the classifier flags as a question
QuestionWithoutCalls ==
    /\ CompletionJustReturned
    /\ tool_choices # NONE
    /\ event.response.tool_calls = <<>>
    /\ event.response.content # <<>>
    /\ _is_asking_question(event.response.content)

\* C15: for a response without structured tool calls whose text the
\* classifier flags as a question (policy not NONE), think() makes the pending
\* calls exactly one synthesized call (id "auto_ask_user", tool "ask_user"),
\* appends exactly one assistant message carrying that call instead of the
\* plain content, and returns True; when the synthesizer yields an empty list
\* or the conversion raises, think() records the normal plain-content
\* assistant message instead and the turn is not aborted.
C15_QuestionBecomesAskUser ==
    QuestionWithoutCalls
        => /\ Cardinality(AssistantAppendedByThink) = 1
           /\ memory[Len(memory)].role = "assistant"
           /\ ret.kind = "bool"
           /\ IF event.type = "none"
              THEN /\ Len(tool_calls) = 1
                   /\ tool_calls[1].id = AutoAskUserId
                   /\ tool_calls[1].name = "ask_user"
                   /\ memory[Len(memory)].tool_calls = tool_calls
                   /\ memory[Len(memory)].content # event.response.content
                   /\ ret = BoolV(TRUE)
              ELSE memory[Len(memory)] = assistant_message(event.response.content)

----------------------------------------------------------------------------
(* Properties of act() without pending calls *)

\* the step is the start of act() with no pending tool calls
ActStartsWithoutCalls ==
    /\ pc = "idle"
    /\ event'.op = "act"
    /\ tool_calls = <<>>

\* C16: act() starting with no pending tool calls under the policy REQUIRED
\* raises the error "Tool calls required but none provided"; it invokes no
\* tool, appends no message and leaves the Agent Run State alone.
C16_RequiredWithoutCallsRaises ==
    [][ (ActStartsWithoutCalls /\ tool_choices = REQUIRED)
            => /\ ret'.kind = "ValueError"
               /\ ret'.text = <<"Tool calls required but none provided">>
               /\ pc' = "idle"
               /\ executed' = <<>>
               /\ memory' = memory
               /\ state' = state ]_vars

\* under REQUIRED a think() that recorded an empty response was followed by
\* an act() that raised
C16_Witness ==
    /\ event.op = "act"
    /\ pc = "idle"
    /\ tool_choices = REQUIRED
    /\ tool_calls = <<>>
    /\ ret.kind = "ValueError"
    /\ Len(memory) > thinkBase
    /\ memory[Len(memory)] = assistant_message(<<>>)

\* C17: act() starting with no pending tool calls under a policy other than
\* REQUIRED returns the content of the last message of memory verbatim, or
\* the fixed placeholder when that content is empty; memory, the pending calls
\* and the Agent Run State are unchanged and no tool is invoked.
C17_ReturnsLastContent ==
    [][ (ActStartsWithoutCalls /\ tool_choices # REQUIRED)
            => /\ ret'.kind = "str"
               /\ memory # <<>>
                    => ret'.text = IF memory[Len(memory)].content # <<>>
                                   THEN memory[Len(memory)].content
                                   ELSE <<"No content or commands to execute">>
               /\ pc' = "idle"
               /\ executed' = <<>>
               /\ memory' = memory
               /\ tool_calls' = tool_calls
               /\ state' = state ]_vars

----------------------------------------------------------------------------
(* Properties of the order of the tool invocations *)

\* the tool of pending call i is being awaited
InFlight(i) == pc = "tool" /\ idx = i

\* C18: within one act() the tool invocations are sequential and do not
\* overlap: while the tool of call i is awaited, the tools of the calls
\* before it have returned, their tool-role messages are in memory in order,
\* and no later call has been started.
C18_SequentialInvocations ==
    \A i \in 1..Len(tool_calls) :
        InFlight(i)
            => /\ Len(executed) = i - 1
               /\ \A j \in 1..(i - 1) : executed[j].command = tool_calls[j]
               /\ ToolResponsesRecorded(actBase, i - 1)

\* the tool of the third call is awaited after the tools of the first two
\* calls have returned
C18_Witness ==
    /\ InFlight(3)
    /\ executed[1].invoked
    /\ executed[2].invoked
    /\ memory[actBase + 2].role = "tool"

----------------------------------------------------------------------------
(* Properties of the question classifier *)

\* the text is a status report: it begins with the success marker or
\* contains "sum of" or "sum is"
StatusReport(t) ==
    \/ (t # <<>> /\ t[1] = "I successfully")
    \/ \E i \in 1..Len(t) : Lower(t[i]) \in {"sum of", "sum is"}

\* the text contains "if you need" or "further assistance"
ClosingRemark(t) ==
    \E i \in 1..Len(t) : Lower(t[i]) \in {"if you need", "further assistance"}

\* the text matches a request/question phrase pattern, a "please let me
\* know" match not counting in a text with a closing remark
MatchesUnsuppressedPattern(t) ==
    \E n \in 1..Len(question_patterns) :
        /\ re_search(question_patterns[n], t)
        /\ ~(question_patterns[n] = PLEASE_LET_ME_KNOW /\ ClosingRemark(t))

\* C19: the classifier's ordered policy: (1) a text that begins with
\* "I successfully" or contains "sum of"/"sum is" is not a question, even
\* with a "?"; (2) otherwise a text with a "?" is a question; (3) otherwise a
\* text matching a request/question phrase pattern is a question, a "please
\* let me know" match being suppressed when the text also contains "if you
\* need" or "further assistance"; (4) otherwise it is not a question.
C19_ClassifierPolicy ==
    returned.kind = "bool"
        => returned.flag = IF StatusReport(input_text)
                           THEN FALSE
                           ELSE IF \E i \in 1..Len(input_text) : input_text[i] = "?"
                           THEN TRUE
                           ELSE MatchesUnsuppressedPattern(input_text)

----------------------------------------------------------------------------
(* Properties of the tool call synthesizer *)

\* the character with a line feed or carriage return turned into a space
Spaced(c) == IF c \in {"\n", "\r"} THEN " " ELSE c

\* the question field of the arguments of the call the synthesizer returned
QuestionField == returned.calls[1].arguments.question

\* C20: the synthesizer returns a list of 0 or 1 tool calls and never
\* raises; the question field of a returned call holds no line feed and no
\* carriage return; for an input of at most 500 characters it is the input
\* with its line breaks replaced by spaces, and for a longer input it is the
\* first 500 characters (line breaks replaced) followed by "...", 503
\* characters in all.
C20_SynthesizedQuestion ==
    /\ returned.kind \in {"none", "list"}
    /\ returned.kind = "list"
        => /\ Len(returned.calls) \in {0, 1}
           /\ returned.calls # <<>>
                => /\ \A i \in 1..Len(QuestionField) : QuestionField[i] \notin {"\n", "\r"}
                   /\ Len(input_text) <= 500
                        => /\ Len(QuestionField) = Len(input_text)
                           /\ \A i \in 1..Len(input_text) :
                                QuestionField[i] = Spaced(input_text[i])
                   /\ Len(input_text) > 500
                        => /\ Len(QuestionField) = 503
                           /\ \A i \in 1..500 : QuestionField[i] = Spaced(input_text[i])
                           /\ \A i \in 501..503 : QuestionField[i] = "."

\* a text of 501 characters with a carriage return as its 500th and a line
\* feed as its 501st character was synthesized into a 503-character question
C20_Witness ==
    /\ returned.kind = "list"
    /\ returned.calls # <<>>
    /\ Len(input_text) = 501
    /\ input_text[500] = "\r"
    /\ input_text[501] = "\n"
    /\ Len(QuestionField) = 503
    /\ QuestionField[500] = " "

====
